---- MODULE Spec2Model ----
(***************************************************************************)
(* The context budgeting and extraction functions of the pyproject         *)
(* generator: smartTruncateReadme, smartTruncatePython and                 *)
(* truncateFilesByBudget; and the installation.created handler of the app. *)
(*                                                                         *)
(* A string is a sequence of UTF-16 code units.  A code unit is written as *)
(* a one-character TLA+ string; a CJK code unit or a backtick is written   *)
(* by its code point, "U+4E2D".  Positions inside the helpers are 1-based (TLA+        *)
(* sequences); the indices the source keeps (importEnd, entryStart,        *)
(* contextStart, slice arguments) are 0-based as in the source.            *)
(***************************************************************************)
EXTENDS Integers, Sequences, FiniteSets, TLC

VARIABLES
    fn,               \* the function under execution
    pc,               \* position inside it
    content, maxLen,  \* arguments of smartTruncateReadme / smartTruncatePython
    output,           \* the value returned
    \* smartTruncateReadme
    extracted, tierOf, remainingBudget, tier, pending,
    \* smartTruncatePython
    lines, importLines, importEnd, entryStart, result, currentLen,
    \* truncateFilesByBudget
    fileContents, totalBudget, truncateFn, files, remaining, perFileBudget,
    excerpts, budgetOf, cursor,
    \* the installation.created handler
    repositories,     \* context.payload.repositories
    repository,       \* 1-based index of the loop over repositories
    usedAI, entryFile, pyprojectContent,  \* what createPyprojectContent returned
    existingSha,
    calls,            \* the calls made so far, each with its outcome
    errors            \* the repositories logged by the catch clause

readmeVars == <<extracted, tierOf, remainingBudget, tier, pending>>
pythonVars == <<lines, importLines, importEnd, entryStart, result, currentLen>>
allocIn    == <<fileContents, totalBudget, truncateFn>>
allocVars  == <<files, remaining, perFileBudget, excerpts, budgetOf, cursor>>
handlerVars == <<repositories, repository, usedAI, entryFile, pyprojectContent,
                 existingSha, calls, errors>>
truncateVars == <<content, maxLen, output, readmeVars, pythonVars, allocIn, allocVars>>
vars == <<fn, pc, truncateVars, handlerVars>>

-----------------------------------------------------------------------------
(* JavaScript string primitives *)

Min(a, b) == IF a <= b THEN a ELSE b
Max(a, b) == IF a >= b THEN a ELSE b

MinOf(S) == CHOOSE x \in S : \A y \in S : x <= y
MaxOf(S) == CHOOSE x \in S : \A y \in S : x >= y

Fill(n, c) == [i \in 1..n |-> c]

\* \s of a regular expression and the characters String.prototype.trim strips
IsSpace(c) == c \in {" ", "\t", "\n", "\r"}

\* a relative index of String.prototype.slice, clamped into 0..len
SliceIndex(len, k) == IF k < 0 THEN Max(len + k, 0) ELSE Min(k, len)

\* s.slice(start, end), both 0-based, negative counted from the end
Slice(s, start, end) ==
    LET from == SliceIndex(Len(s), start)
        to   == SliceIndex(Len(s), end)
    IN  IF from >= to THEN <<>> ELSE SubSeq(s, from + 1, to)

\* s.slice(start)
SliceFrom(s, start) == Slice(s, start, Len(s))

\* ToIntegerOrInfinity(n / 2): slice truncates a fractional argument toward zero
HalfTrunc(n) == IF n >= 0 THEN n \div 2 ELSE -((-n) \div 2)

\* parts.join(sep)
RECURSIVE Join(_, _)
Join(parts, sep) ==
    IF parts = <<>> THEN <<>>
    ELSE IF Len(parts) = 1 THEN parts[1]
    ELSE parts[1] \o sep \o Join(Tail(parts), sep)

\* the literal lit occurs in s at position p
StartsAt(s, p, lit) ==
    /\ p >= 1
    /\ p + Len(lit) - 1 <= Len(s)
    /\ \A i \in 1..Len(lit) : s[p + i - 1] = lit[i]

\* s.includes(m)
Includes(s, m) == \E p \in 1..(Len(s) - Len(m) + 1) : StartsAt(s, p, m)

\* first position >= from where lit occurs in s, 0 when there is none
FindLit(s, from, lit) ==
    LET S == {p \in from..(Len(s) - Len(lit) + 1) : StartsAt(s, p, lit)}
    IN  IF S = {} THEN 0 ELSE MinOf(S)

\* the positions of the "\n" of s, ascending
NewlinePositions(s) == SelectSeq([i \in 1..Len(s) |-> i], LAMBDA i : s[i] = "\n")

\* s.split("\n")
Split(s) ==
    LET nl == NewlinePositions(s)
    IN  [k \in 1..(Len(nl) + 1) |->
            SubSeq(s, IF k = 1 THEN 1 ELSE nl[k - 1] + 1,
                      IF k = Len(nl) + 1 THEN Len(s) ELSE nl[k] - 1)]

UpperCase == <<"A", "B", "C", "D", "E", "F", "G", "H", "I", "J", "K", "L", "M",
               "N", "O", "P", "Q", "R", "S", "T", "U", "V", "W", "X", "Y", "Z">>
LowerCase == <<"a", "b", "c", "d", "e", "f", "g", "h", "i", "j", "k", "l", "m",
               "n", "o", "p", "q", "r", "s", "t", "u", "v", "w", "x", "y", "z">>

\* case folding of the i flag
Lower(c) ==
    IF \E i \in 1..26 : UpperCase[i] = c
    THEN LowerCase[CHOOSE i \in 1..26 : UpperCase[i] = c]
    ELSE c

\* lit (lower case) occurs in s at position p, ignoring case
StartsAtFold(s, p, lit) ==
    /\ p >= 1
    /\ p + Len(lit) - 1 <= Len(s)
    /\ \A i \in 1..Len(lit) : Lower(s[p + i - 1]) = lit[i]

\* position after the greedy \s* that starts at p
SkipSpace(s, p) == MinOf({q \in p..(Len(s) + 1) : q = Len(s) + 1 \/ ~IsSpace(s[q])})

\* length of the run of "#" that starts at p
HashRun(s, p) ==
    MaxOf({k \in 0..Max(Len(s) - p + 1, 0) : \A j \in 0..(k - 1) : s[p + j] = "#"})

-----------------------------------------------------------------------------
(* smartTruncateReadme *)

\* the introduction: content.slice(0, 500)
INTRO_LEN == 500

\* a fragment is kept when truncated.length > 100
MIN_FRAGMENT == 100

\* the joiner of extracted.join("\n\n...\n\n")
README_SEP == <<"\n", "\n", ".", ".", ".", "\n", "\n">>

\* the mutant of prioritySections: the example tier comes first
prioritySectionsExampleFirst == <<"example", "usage", "install", "fence">>

\* the pattern of each tier, in priority order
prioritySections == <<"usage", "install", "example", "fence">>

\* the keyword alternatives of a heading tier; an alternative is a sequence
\* of literals separated by \s* (only quick\s*start has two)
TierKeywords(t) ==
    CASE t = "usage" ->
    << << <<"u", "s", "a", "g", "e">> >>,
      << <<"U+4F7F", "U+7528">> >>,
      << <<"U+7528", "U+6CD5">> >>,
      << <<"c", "l", "i">> >>,
      << <<"c", "o", "m", "m", "a", "n", "d">> >>,
      << <<"U+547D", "U+4EE4">> >> >>
      [] t = "install" ->
    << << <<"i", "n", "s", "t", "a", "l", "l">> >>,
      << <<"U+5B89", "U+88C5">> >>,
      << <<"q", "u", "i", "c", "k">>, <<"s", "t", "a", "r", "t">> >>,
      << <<"U+5FEB", "U+901F", "U+5F00", "U+59CB">> >> >>
      [] t = "example" ->
    << << <<"e", "x", "a", "m", "p", "l", "e">> >>,
      << <<"U+793A", "U+4F8B">> >>,
      << <<"d", "e", "m", "o">> >> >>
      [] OTHER -> <<>>

\* position after alternative alt matched at q (from segment i on), 0 when
\* it does not match
RECURSIVE KeywordEnd(_, _, _, _)
KeywordEnd(s, q, alt, i) ==
    IF i > Len(alt) THEN q
    ELSE LET at == IF i = 1 THEN q ELSE SkipSpace(s, q)
         IN  IF StartsAtFold(s, at, alt[i])
             THEN KeywordEnd(s, at + Len(alt[i]), alt, i + 1)
             ELSE 0

\* #{1,3}\s*(keyword)[^\n]*\n tried at position p: the position of the "\n"
\* that ends the heading line, 0 when the heading does not match at p
HeadingEnd(s, p, t) ==
    LET h    == Min(HashRun(s, p), 3)
        q    == SkipSpace(s, p + h)
        alts == TierKeywords(t)
        ends == {KeywordEnd(s, q, alts[a], 1) : a \in 1..Len(alts)} \ {0}
    IN  IF h = 0 \/ ends = {} THEN 0
        ELSE FindLit(s, MinOf(ends), <<"\n">>)

\* the lookahead (?=\n#{1,3}\s|\n*$) at position p
SectionStop(s, p) ==
    \/ \A j \in p..Len(s) : s[j] = "\n"
    \/ /\ p <= Len(s)
       /\ s[p] = "\n"
       /\ LET k == HashRun(s, p + 1)
          IN  k \in 1..3 /\ p + 1 + k <= Len(s) /\ IsSpace(s[p + 1 + k])

\* end (exclusive) of the lazy [\s\S]*? that starts at from
SectionEnd(s, from) == MinOf({p \in from..(Len(s) + 1) : SectionStop(s, p)})

\* content.match(regex) of a heading tier, searching from position from
RECURSIVE MatchSections(_, _, _)
MatchSections(s, from, t) ==
    LET starts == {p \in from..Len(s) : s[p] = "#" /\ HeadingEnd(s, p, t) # 0}
    IN  IF starts = {} THEN <<>>
        ELSE LET p == MinOf(starts)
                 e == SectionEnd(s, HeadingEnd(s, p, t) + 1)
             IN  <<SubSeq(s, p, e - 1)>> \o MatchSections(s, e, t)

\* three backticks (U+0060)
FENCE == <<"U+0060", "U+0060", "U+0060">>

\* content.match(regex) of the fenced code block tier: three backticks, a lazy
\* [\s\S]*?, three backticks; searching from position from
RECURSIVE MatchFences(_, _)
MatchFences(s, from) ==
    LET open  == FindLit(s, from, FENCE)
        close == IF open = 0 THEN 0 ELSE FindLit(s, open + 3, FENCE)
    IN  IF close = 0 THEN <<>>
        ELSE <<SubSeq(s, open, close + 2)>> \o MatchFences(s, close + 3)

\* content.match(regex) || []
MatchAll(s, t) == IF t = "fence" THEN MatchFences(s, 1) ELSE MatchSections(s, 1, t)

\* if (!content || content.length <= maxLen) return content
ReadmeFits(c, m) == c = <<>> \/ Len(c) <= m

\* the introduction
Intro(c) == Slice(c, 0, INTRO_LEN)

\* the mutant of Truncated: the match is not cut to the remaining budget
TruncatedWhole(match, budget) == match

\* match.slice(0, remainingBudget)
Truncated(match, budget) == Slice(match, 0, budget)

\* truncated.length > 100
Meaningful(truncated) == Len(truncated) > MIN_FRAGMENT

-----------------------------------------------------------------------------
(* smartTruncatePython *)

\* lines of context kept before the entry point
CONTEXT_LINES == 20

\* characters held back when only the tail of the entry section fits
TAIL_RESERVE == 50

\* the elision marker "\n# ... (...) ...\n", 20 code units
ELISION == <<"\n", "#", " ", ".", ".", ".", " ", "(", "U+4E2D", "U+95F4", "U+4EE3", "U+7801", "U+7701", "U+7565", ")", " ", ".", ".", ".", "\n">>

\* the mutant of PythonFits: < for <=
PythonFitsStrict(c, m) == c = <<>> \/ Len(c) < m

\* if (!content || content.length <= maxLen) return content
PythonFits(c, m) == c = <<>> \/ Len(c) <= m

\* /^(import |from .+ import )/.test(line)
IsImport(line) ==
    \/ StartsAt(line, 1, <<"i", "m", "p", "o", "r", "t", " ">>)
    \/ /\ StartsAt(line, 1, <<"f", "r", "o", "m", " ">>)
       /\ \E p \in 7..Len(line) : StartsAt(line, p, <<" ", "i", "m", "p", "o", "r", "t", " ">>)

\* line.trim() === ""
IsBlank(line) == \A i \in 1..Len(line) : IsSpace(line[i])

\* lines 72-84: the loop from index i on; the import lines and importEnd
RECURSIVE ScanImports(_, _, _, _)
ScanImports(ls, i, found, end) ==
    IF i >= Len(ls) THEN [importLines |-> found, importEnd |-> end]
    ELSE IF IsImport(ls[i + 1])
         THEN ScanImports(ls, i + 1, Append(found, ls[i + 1]), i)
         ELSE IF found # <<>> /\ ~IsBlank(ls[i + 1])
              THEN [importLines |-> found, importEnd |-> end]
              ELSE ScanImports(ls, i + 1, found, end)

QUOTES == {"\"", "'"}

\* the names of /def\s+(main|run|cli|app|start)\s*\(/
ENTRY_NAMES ==
    { <<"m", "a", "i", "n">>,
      <<"r", "u", "n">>,
      <<"c", "l", "i">>,
      <<"a", "p", "p">>,
      <<"s", "t", "a", "r", "t">> }

\* /if\s+__name__\s*==\s*["']__main__["']/ matched at position p
MainGuardAt(line, p) ==
    /\ StartsAt(line, p, <<"i", "f">>)
    /\ LET q == SkipSpace(line, p + 2)
           r == SkipSpace(line, q + 8)
           t == SkipSpace(line, r + 2)
       IN  /\ q > p + 2
           /\ StartsAt(line, q, <<"_", "_", "n", "a", "m", "e", "_", "_">>)
           /\ StartsAt(line, r, <<"=", "=">>)
           /\ t + 9 <= Len(line)
           /\ line[t] \in QUOTES
           /\ StartsAt(line, t + 1, <<"_", "_", "m", "a", "i", "n", "_", "_">>)
           /\ line[t + 9] \in QUOTES

\* /def\s+(main|run|cli|app|start)\s*\(/ matched at position p
EntryDefAt(line, p) ==
    /\ StartsAt(line, p, <<"d", "e", "f">>)
    /\ LET q == SkipSpace(line, p + 3)
       IN  /\ q > p + 3
           /\ \E name \in ENTRY_NAMES :
                /\ StartsAt(line, q, name)
                /\ StartsAt(line, SkipSpace(line, q + Len(name)), <<"(">>)

entryPatterns == <<"guard", "def", "add_command", "click", "argparse">>

\* pattern.test(line)
PatternTest(pattern, line) ==
    CASE pattern = "guard" -> \E p \in 1..Len(line) : MainGuardAt(line, p)
      [] pattern = "def" -> \E p \in 1..Len(line) : EntryDefAt(line, p)
      [] pattern = "add_command" -> Includes(line, <<".", "a", "d", "d", "_", "c", "o", "m", "m", "a", "n", "d", "(">>)
      [] pattern = "click" ->
           \/ Includes(line, <<"@", "c", "l", "i", "c", "k", ".", "c", "o", "m", "m", "a", "n", "d">>)
           \/ Includes(line, <<"@", "c", "l", "i", "c", "k", ".", "g", "r", "o", "u", "p">>)
      [] pattern = "argparse" -> Includes(line, <<"a", "r", "g", "p", "a", "r", "s", "e", ".", "A", "r", "g", "u", "m", "e", "n", "t", "P", "a", "r", "s", "e", "r">>)

IsEntry(line) == \E k \in 1..Len(entryPatterns) : PatternTest(entryPatterns[k], line)

\* lines 96-105: the scan from index i down to 0; -1 when nothing matches
RECURSIVE ScanEntry(_, _)
ScanEntry(ls, i) ==
    IF i < 0 THEN -1
    ELSE IF IsEntry(ls[i + 1]) THEN i
    ELSE ScanEntry(ls, i - 1)

\* the mutant of FindEntry: the first match from the top of the file
FindEntryForward(ls) ==
    LET S == {i \in 0..(Len(ls) - 1) : IsEntry(ls[i + 1])}
    IN  IF S = {} THEN -1 ELSE MinOf(S)

FindEntry(ls) == ScanEntry(ls, Len(ls) - 1)

\* Math.floor(maxLen / 2)
HalfBudget(m) == m \div 2

\* importLines.join("\n")
ImportSection(imports) == Join(imports, <<"\n">>)

\* line 112: the import section is emitted when shorter than half the budget
ImportFits(section, m) == Len(section) < HalfBudget(m)

\* lines 111-115: what is pushed for the import section
ImportParts(imports, m) ==
    IF ImportFits(ImportSection(imports), m) THEN <<ImportSection(imports)>> ELSE <<>>

\* the mutant of ContextStart: min for max
ContextStartMin(entry, impEnd) == Min(entry - CONTEXT_LINES, impEnd + 1)

\* line 119
ContextStart(entry, impEnd) == Max(entry - CONTEXT_LINES, impEnd + 1)

\* line 120: lines.slice(contextStart).join("\n")
EntrySection(ls, entry, impEnd) ==
    Join(SliceFrom(ls, ContextStart(entry, impEnd)), <<"\n">>)

\* lines 118-134: what is pushed when an entry point was found
EntryParts(ls, entry, impEnd, curLen, m) ==
    LET section == EntrySection(ls, entry, impEnd)
        rest    == m - curLen - TAIL_RESERVE
    IN  IF curLen + Len(section) <= m
        THEN (IF ContextStart(entry, impEnd) > impEnd + 1 THEN <<ELISION>> ELSE <<>>)
             \o <<section>>
        ELSE IF rest > 0 THEN <<ELISION, SliceFrom(section, -rest)>>
        ELSE <<>>

\* lines 137-145: what is pushed when no entry point was found
HeadTailParts(ls, impEnd, curLen, m) ==
    LET rest   == m - curLen
        middle == Join(SliceFrom(ls, impEnd + 1), <<"\n">>)
    IN  IF Len(middle) <= rest THEN <<middle>>
        ELSE << Slice(middle, 0, HalfTrunc(rest)),
                ELISION,
                SliceFrom(middle, HalfTrunc(-rest)) >>

\* lines 107-146: the array result
PythonParts(ls, m) ==
    LET scan   == ScanImports(ls, 0, <<>>, 0)
        entry  == FindEntry(ls)
        head   == ImportParts(scan.importLines, m)
        curLen == IF head = <<>> THEN 0 ELSE Len(head[1])
    IN  head \o (IF entry # -1
                 THEN EntryParts(ls, entry, scan.importEnd, curLen, m)
                 ELSE HeadTailParts(ls, scan.importEnd, curLen, m))

\* smartTruncatePython(content, maxLen), as truncateFilesByBudget calls it
SmartTruncatePython(c, m) ==
    IF PythonFits(c, m) THEN c ELSE Join(PythonParts(Split(c), m), <<"\n">>)

-----------------------------------------------------------------------------
(* truncateFilesByBudget *)

\* the least budget of a file while the category budget lasts
FLOOR_MIN == 500

\* a file is an entry <<fileName, content>> of Object.entries(fileContents)
NameOf(file) == file[1]
ContentOf(file) == file[2]

\* the comparator a[1].length - b[1].length is negative
Smaller(a, b) == Len(ContentOf(a)) < Len(ContentOf(b))

\* file put into a sorted list, behind the files it is not smaller than
RECURSIVE Insert(_, _)
Insert(sorted, file) ==
    IF sorted = <<>> THEN <<file>>
    ELSE IF Smaller(file, Head(sorted)) THEN <<file>> \o sorted
    ELSE <<Head(sorted)>> \o Insert(Tail(sorted), file)

\* files.sort(...): ascending by content length, stable
RECURSIVE SortBySize(_)
SortBySize(fs) ==
    IF fs = <<>> THEN <<>>
    ELSE Insert(SortBySize(SubSeq(fs, 1, Len(fs) - 1)), fs[Len(fs)])

\* Math.floor(totalBudget / files.length)
PerFileBudget(total, n) == total \div n

\* the mutant of FileBudget: the floor of 500 is left out
FileBudgetNoFloor(rem, perFile) == Min(rem, perFile)

\* the mutant of FileBudget: the allocation is not capped by what remains
FileBudgetUncapped(rem, perFile) == Max(perFile, FLOOR_MIN)

\* Math.min(remaining, Math.max(perFileBudget, 500))
FileBudget(rem, perFile) == Min(rem, Max(perFile, FLOOR_MIN))

\* the mutant of Exhausted: < for <=
ExhaustedStrict(rem) == rem < 0

\* line 170: if (remaining <= 0) break
Exhausted(rem) == rem <= 0

\* content.slice(0, budget)
PlainTruncate(c, budget) == Slice(c, 0, budget)

\* truncateFn ? truncateFn(content, budget) : content.slice(0, budget)
ApplyTruncate(f, c, budget) ==
    IF f = "smartTruncatePython" THEN SmartTruncatePython(c, budget)
    ELSE PlainTruncate(c, budget)

-----------------------------------------------------------------------------
(* Bounds and inputs *)

\* section bodies are 1..MaxUnits units of SizeUnit characters long; the
\* odd blocks of a readme take units[1], the even blocks units[2]
MaxUnits == 2
SizeUnit == 90

\* a markdown heading line
Heading(level, title) == Fill(level, "#") \o <<" ">> \o title

\* one block of a readme, with a body of n characters
ReadmeBlock(kind, n) ==
    CASE kind = "usage" ->
           Heading(2, <<"U", "s", "a", "g", "e">>) \o <<"\n">> \o Fill(n, "u")
      [] kind = "usagefence" ->
           Heading(2, <<"U", "s", "a", "g", "e">>) \o <<"\n">> \o Fill(n, "u") \o <<"\n">>
           \o FENCE \o <<"\n">> \o Fill(n, "c") \o <<"\n">> \o FENCE
      [] kind = "subusage" ->
           Heading(2, <<"B", "a", "s", "i", "c", " ", "u", "s", "a", "g", "e">>) \o <<"\n">> \o Fill(n, "u")
           \o <<"\n", "\n">> \o Heading(3, <<"O", "p", "t", "i", "o", "n", "s">>) \o <<"\n">> \o Fill(n, "o")
      [] kind = "usageoptions" ->
           Heading(2, <<"U", "s", "a", "g", "e">>) \o <<"\n">> \o Fill(n, "u")
           \o <<"\n", "\n">> \o Heading(3, <<"O", "p", "t", "i", "o", "n", "s">>) \o <<"\n">> \o Fill(n, "o")
      [] kind = "install" ->
           Heading(2, <<"I", "n", "s", "t", "a", "l", "l", "a", "t", "i", "o", "n">>) \o <<"\n">> \o Fill(n, "i")
      [] kind = "example" ->
           Heading(2, <<"E", "x", "a", "m", "p", "l", "e", "s">>) \o <<"\n">> \o Fill(n, "e")
      [] kind = "about" ->
           Heading(2, <<"A", "b", "o", "u", "t">>) \o <<"\n">> \o Fill(n, "a")
      [] kind = "code" ->
           FENCE \o <<"\n">> \o Fill(n, "c") \o <<"\n">> \o FENCE

\* the block layouts of the readmes
ReadmeLayouts ==
    { <<"usage", "example">>,
      <<"example", "usage">>,
      <<"example", "install", "usage">>,
      <<"usagefence", "install">>,
      <<"about", "code">>,
      <<"install", "about", "example">>,
      <<"subusage", "example">>,
      <<"usageoptions", "about">>,
      <<"code", "usage">>,
      <<"about">> }

\* length of the title paragraph that opens a readme
IntroSizes == {150, 400, 520}

RECURSIVE ReadmeBody(_, _, _)
ReadmeBody(layout, units, i) ==
    IF i > Len(layout) THEN <<>>
    ELSE <<"\n", "\n">> \o ReadmeBlock(layout[i], units[2 - (i % 2)] * SizeUnit)
         \o ReadmeBody(layout, units, i + 1)

ReadmeDoc(introSize, layout, units) ==
    Heading(1, <<"q", "u", "i", "c", "k", "2", "u", "v">>) \o <<"\n">> \o Fill(introSize, "t")
    \o ReadmeBody(layout, units, 1)

ReadmeDocs ==
    {<<>>} \cup
    { ReadmeDoc(n, layout, units) :
        n \in IntroSizes,
        layout \in ReadmeLayouts,
        units \in [1..2 -> 1..MaxUnits] }

ReadmeMaxLens == {0, 300, 600, 601, 800, 2500}

\* code lines behind the last entry line of a source file: 1..MaxTrailing
MaxTrailing == 2

\* the import lines of the source files
IMPORT_LINES ==
    << <<"i", "m", "p", "o", "r", "t", " ", "o", "s">>,
       <<"i", "m", "p", "o", "r", "t", " ", "s", "y", "s">>,
       <<"f", "r", "o", "m", " ", "p", "a", "t", "h", "l", "i", "b", " ", "i", "m", "p", "o", "r", "t", " ", "P", "a", "t", "h">>,
       <<"i", "m", "p", "o", "r", "t", " ", "r", "e">>,
       <<"i", "m", "p", "o", "r", "t", " ", "j", "s", "o", "n">> >>

\* a line of a source file
SourceLine(kind) ==
    CASE kind = "code" -> Fill(20, "x")
      [] kind = "blank" -> <<>>
      [] kind = "shebang" -> <<"#", "!", "/", "u", "s", "r", "/", "b", "i", "n", "/", "e", "n", "v", " ", "p", "y", "t", "h", "o", "n">>
      [] kind = "run" -> <<"d", "e", "f", " ", "r", "u", "n", "(", ")", ":">>
      [] kind = "guard" -> <<"i", "f", " ", "_", "_", "n", "a", "m", "e", "_", "_", " ", "=", "=", " ", "\"", "_", "_", "m", "a", "i", "n", "_", "_", "\"", ":", " ", "r", "u", "n", "(", ")">>
      [] kind = "click" -> <<"@", "c", "l", "i", "c", "k", ".", "c", "o", "m", "m", "a", "n", "d", "(", ")">>
      [] kind = "argparse" -> <<"p", "a", "r", "s", "e", "r", " ", "=", " ", "a", "r", "g", "p", "a", "r", "s", "e", ".", "A", "r", "g", "u", "m", "e", "n", "t", "P", "a", "r", "s", "e", "r", "(", ")">>
      [] kind = "add_command" -> <<"c", "l", "i", ".", "a", "d", "d", "_", "c", "o", "m", "m", "a", "n", "d", "(", "b", "u", "i", "l", "d", ")">>

Repeat(n, line) == [i \in 1..n |-> line]

\* the head of a source file: nImp import lines at the top ("plain"), behind
\* a shebang line ("shebang") or with a blank line between them ("spaced")
SourceHead(style, nImp) ==
    LET imports == SubSeq(IMPORT_LINES, 1, nImp)
    IN  CASE style = "plain" -> imports
          [] style = "shebang" -> <<SourceLine("shebang")>> \o imports
          [] style = "spaced" ->
               IF nImp < 2 THEN imports
               ELSE <<imports[1], SourceLine("blank")>> \o Tail(imports)

OneLine(kind) == IF kind = "none" THEN <<>> ELSE <<SourceLine(kind)>>

\* a source file: head, a code lines, an entry line e1, b code lines, an
\* entry line e2, c code lines
SourceLines(style, nImp, a, e1, b, e2, c) ==
    SourceHead(style, nImp) \o Repeat(a, SourceLine("code")) \o OneLine(e1)
    \o Repeat(b, SourceLine("code")) \o OneLine(e2) \o Repeat(c, SourceLine("code"))

\* style and number of import lines of the heads
SourceHeads ==
    {<<"plain", 0>>, <<"plain", 5>>, <<"shebang", 0>>, <<"shebang", 5>>, <<"spaced", 5>>}

\* the entry lines e1 and e2 of the source files
EntryPairs ==
    { <<"none", "none">>, <<"run", "none">>, <<"none", "guard">>, <<"run", "guard">>,
      <<"click", "guard">>, <<"argparse", "none">>, <<"add_command", "none">> }

SourceDocs ==
    {<<>>} \cup
    { Join(SourceLines(head[1], head[2], a, entries[1], b, entries[2], c), <<"\n">>) :
        head \in SourceHeads,
        a \in {3, 24},
        entries \in EntryPairs,
        b \in {17, 25},
        c \in 1..MaxTrailing }

\* a source file of 50 lines: 5 import lines, def run(): at line 30, the
\* __main__ guard at line 48
ExampleSource == Join(SourceLines("plain", 5, 24, "run", 17, "guard", 2), <<"\n">>)

PythonMaxLens == {-7, 0, 1, 100, 500, 800, Len(ExampleSource)}

\* at most MaxFiles files in a category
MaxFiles == 3

FILE_NAMES == <<"a.py", "b.py", "c.py", "d.py">>

\* a source file of 21 lines with neither an import line nor an entry point
PlainSource == Join(SourceLines("plain", 0, 3, "none", 17, "none", 1), <<"\n">>)

\* the contents of the files of a category
FileTexts ==
    { Fill(100, "x"), Fill(1800, "x"), ExampleSource, PlainSource }

\* fileContents, in insertion order
FileSets ==
    UNION { { [i \in 1..n |-> <<FILE_NAMES[i], texts[i]>>] : texts \in [1..n -> FileTexts] } :
            n \in 0..MaxFiles }

Budgets == {0, 100, 101, 600, 1500, 2000}

-----------------------------------------------------------------------------
(* smartTruncateReadme, one step per loop iteration *)

ReadmeIdle ==
    /\ extracted = <<>> /\ tierOf = <<>> /\ remainingBudget = 0
    /\ tier = 0 /\ pending = <<>>

PythonIdle ==
    /\ lines = <<>> /\ importLines = <<>> /\ importEnd = 0
    /\ entryStart = -1 /\ result = <<>> /\ currentLen = 0

AllocIdle ==
    /\ fileContents = <<>> /\ totalBudget = 0 /\ truncateFn = "undefined"
    /\ files = <<>> /\ remaining = 0 /\ perFileBudget = 0
    /\ excerpts = <<>> /\ budgetOf = <<>> /\ cursor = 0

HandlerIdle ==
    /\ repositories = <<>> /\ repository = 0
    /\ usedAI = FALSE /\ entryFile = "null" /\ pyprojectContent = "undefined"
    /\ existingSha = "undefined"
    /\ calls = <<>> /\ errors = <<>>

InitReadme ==
    /\ fn = "smartTruncateReadme"
    /\ pc = "start"
    /\ content \in ReadmeDocs
    /\ maxLen \in ReadmeMaxLens
    /\ output = <<>>
    /\ ReadmeIdle /\ PythonIdle /\ AllocIdle /\ HandlerIdle

\* line 19: the document fits (or is empty) and is returned as it is
ReadmeReturn ==
    /\ fn = "smartTruncateReadme" /\ pc = "start"
    /\ ReadmeFits(content, maxLen)
    /\ output' = content
    /\ pc' = "done"
    /\ UNCHANGED <<fn, content, maxLen, readmeVars, pythonVars, allocIn, allocVars>>
    /\ UNCHANGED handlerVars

\* lines 29-35: the introduction is always emitted and charged
ReadmeIntro ==
    /\ fn = "smartTruncateReadme" /\ pc = "start"
    /\ ~ReadmeFits(content, maxLen)
    /\ extracted' = <<Intro(content)>>
    /\ tierOf' = <<"intro">>
    /\ remainingBudget' = maxLen - Len(Intro(content))
    /\ tier' = 1
    /\ pc' = "tier"
    /\ UNCHANGED <<fn, content, maxLen, output, pending, pythonVars, allocIn, allocVars>>
    /\ UNCHANGED handlerVars

\* lines 38-41: the head of the outer loop
ReadmeTier ==
    /\ fn = "smartTruncateReadme" /\ pc = "tier"
    /\ IF tier > Len(prioritySections) \/ remainingBudget <= 0
       THEN /\ pc' = "join"
            /\ UNCHANGED pending
       ELSE /\ pending' = MatchAll(content, prioritySections[tier])
            /\ pc' = "match"
    /\ UNCHANGED <<fn, content, maxLen, output, extracted, tierOf, remainingBudget,
                   tier, pythonVars, allocIn, allocVars>>
    /\ UNCHANGED handlerVars

\* lines 42-52: one iteration of the inner loop
ReadmeMatch ==
    /\ fn = "smartTruncateReadme" /\ pc = "match"
    /\ IF pending = <<>> \/ remainingBudget <= 0
       THEN /\ tier' = tier + 1
            /\ pc' = "tier"
            /\ UNCHANGED <<pending, extracted, tierOf, remainingBudget>>
       ELSE LET match     == Head(pending)
                truncated == Truncated(match, remainingBudget)
                keep      == ~Includes(extracted[1], match) /\ Meaningful(truncated)
            IN  /\ pending' = Tail(pending)
                /\ extracted' = IF keep THEN Append(extracted, truncated) ELSE extracted
                /\ tierOf' = IF keep THEN Append(tierOf, prioritySections[tier]) ELSE tierOf
                /\ remainingBudget' =
                       IF keep THEN remainingBudget - Len(truncated) ELSE remainingBudget
                /\ UNCHANGED <<tier, pc>>
    /\ UNCHANGED <<fn, content, maxLen, output, pythonVars, allocIn, allocVars>>
    /\ UNCHANGED handlerVars

\* line 55
ReadmeJoin ==
    /\ fn = "smartTruncateReadme" /\ pc = "join"
    /\ output' = Join(extracted, README_SEP)
    /\ pc' = "done"
    /\ UNCHANGED <<fn, content, maxLen, readmeVars, pythonVars, allocIn, allocVars>>
    /\ UNCHANGED handlerVars

-----------------------------------------------------------------------------
(* smartTruncatePython, one step per stage *)

InitPython ==
    /\ fn = "smartTruncatePython"
    /\ pc = "start"
    /\ content \in SourceDocs
    /\ maxLen \in PythonMaxLens
    /\ output = <<>>
    /\ ReadmeIdle /\ PythonIdle /\ AllocIdle /\ HandlerIdle

\* line 65
PythonReturn ==
    /\ fn = "smartTruncatePython" /\ pc = "start"
    /\ PythonFits(content, maxLen)
    /\ output' = content
    /\ pc' = "done"
    /\ UNCHANGED <<fn, content, maxLen, readmeVars, pythonVars, allocIn, allocVars>>
    /\ UNCHANGED handlerVars

\* lines 67-105: the lines, the import block and the entry point
PythonScan ==
    /\ fn = "smartTruncatePython" /\ pc = "start"
    /\ ~PythonFits(content, maxLen)
    /\ lines' = Split(content)
    /\ importLines' = ScanImports(lines', 0, <<>>, 0).importLines
    /\ importEnd' = ScanImports(lines', 0, <<>>, 0).importEnd
    /\ entryStart' = FindEntry(lines')
    /\ pc' = "imports"
    /\ UNCHANGED <<fn, content, maxLen, output, result, currentLen,
                   readmeVars, allocIn, allocVars>>
    /\ UNCHANGED handlerVars

\* lines 108-115
PythonImports ==
    /\ fn = "smartTruncatePython" /\ pc = "imports"
    /\ result' = ImportParts(importLines, maxLen)
    /\ currentLen' = IF ImportParts(importLines, maxLen) = <<>> THEN 0
                     ELSE Len(ImportSection(importLines))
    /\ pc' = "body"
    /\ UNCHANGED <<fn, content, maxLen, output, lines, importLines, importEnd,
                   entryStart, readmeVars, allocIn, allocVars>>
    /\ UNCHANGED handlerVars

\* lines 118-134
PythonEntry ==
    /\ fn = "smartTruncatePython" /\ pc = "body"
    /\ entryStart # -1
    /\ result' = result \o EntryParts(lines, entryStart, importEnd, currentLen, maxLen)
    /\ pc' = "join"
    /\ UNCHANGED <<fn, content, maxLen, output, lines, importLines, importEnd,
                   entryStart, currentLen, readmeVars, allocIn, allocVars>>
    /\ UNCHANGED handlerVars

\* lines 135-146
PythonHeadTail ==
    /\ fn = "smartTruncatePython" /\ pc = "body"
    /\ entryStart = -1
    /\ result' = result \o HeadTailParts(lines, importEnd, currentLen, maxLen)
    /\ pc' = "join"
    /\ UNCHANGED <<fn, content, maxLen, output, lines, importLines, importEnd,
                   entryStart, currentLen, readmeVars, allocIn, allocVars>>
    /\ UNCHANGED handlerVars

\* line 148
PythonJoin ==
    /\ fn = "smartTruncatePython" /\ pc = "join"
    /\ output' = Join(result, <<"\n">>)
    /\ pc' = "done"
    /\ UNCHANGED <<fn, content, maxLen, readmeVars, pythonVars, allocIn, allocVars>>
    /\ UNCHANGED handlerVars

-----------------------------------------------------------------------------
(* truncateFilesByBudget, one step per loop iteration *)

InitAlloc ==
    /\ fn = "truncateFilesByBudget"
    /\ pc = "start"
    /\ fileContents \in FileSets
    /\ totalBudget \in Budgets
    /\ truncateFn \in {"undefined", "smartTruncatePython"}
    /\ content = <<>> /\ maxLen = 0 /\ output = <<>>
    /\ ReadmeIdle /\ PythonIdle /\ HandlerIdle
    /\ files = <<>> /\ remaining = 0 /\ perFileBudget = 0
    /\ excerpts = <<>> /\ budgetOf = <<>> /\ cursor = 0

\* line 160: no file, the empty result
AllocEmpty ==
    /\ fn = "truncateFilesByBudget" /\ pc = "start"
    /\ fileContents = <<>>
    /\ pc' = "done"
    /\ UNCHANGED <<fn, content, maxLen, output, readmeVars, pythonVars, allocIn, allocVars>>
    /\ UNCHANGED handlerVars

\* lines 163-167
AllocSort ==
    /\ fn = "truncateFilesByBudget" /\ pc = "start"
    /\ fileContents # <<>>
    /\ files' = SortBySize(fileContents)
    /\ remaining' = totalBudget
    /\ perFileBudget' = PerFileBudget(totalBudget, Len(fileContents))
    /\ cursor' = 0
    /\ pc' = "loop"
    /\ UNCHANGED <<fn, content, maxLen, output, readmeVars, pythonVars, allocIn,
                   excerpts, budgetOf>>
    /\ UNCHANGED handlerVars

\* lines 169-175: one file; cursor counts the files taken from the list
AllocFile ==
    /\ fn = "truncateFilesByBudget" /\ pc = "loop"
    /\ cursor < Len(files)
    /\ ~Exhausted(remaining)
    /\ LET file    == files[cursor + 1]
           budget  == FileBudget(remaining, perFileBudget)
           excerpt == ApplyTruncate(truncateFn, ContentOf(file), budget)
       IN  /\ excerpts' = (NameOf(file) :> excerpt) @@ excerpts
           /\ budgetOf' = (NameOf(file) :> budget) @@ budgetOf
           /\ remaining' = remaining - Len(excerpt)
    /\ cursor' = cursor + 1
    /\ UNCHANGED <<fn, pc, content, maxLen, output, readmeVars, pythonVars, allocIn,
                   files, perFileBudget>>
    /\ UNCHANGED handlerVars

\* line 170 (break) or the end of the list; line 177
AllocReturn ==
    /\ fn = "truncateFilesByBudget" /\ pc = "loop"
    /\ cursor >= Len(files) \/ Exhausted(remaining)
    /\ pc' = "done"
    /\ UNCHANGED <<fn, content, maxLen, output, readmeVars, pythonVars, allocIn, allocVars>>
    /\ UNCHANGED handlerVars

-----------------------------------------------------------------------------

(* the installation.created handler of app.js, one step per awaited call *)

\* at most MaxRepos repositories in the payload
MaxRepos == 2

REPO_NAMES == <<"alpha", "beta", "gamma", "delta">>

\* context.payload.repositories
Payloads == {SubSeq(REPO_NAMES, 1, n) : n \in 0..MaxRepos}

\* the statement that follows statement op when op returns
Following(op) ==
    CASE op = "repos.get" -> "createPCbyAI"
      [] op = "createPCbyAI" -> "git.getRef"
      [] op = "createPC" -> "git.getRef"
      [] op = "git.getRef" -> "git.createRef"
      [] op = "git.createRef" -> "pyproject.toml"
      [] op = "pyproject.toml" -> IF entryFile = "null" THEN "pypi.yml" ELSE "repos.getContent"
      [] op = "repos.getContent" -> "entryFile"
      [] op = "entryFile" -> "pypi.yml"
      [] op = "pypi.yml" -> "pulls.create"
      [] op = "pulls.create" -> "loop"

\* the mutant of Thrown: an exception of the handler's own calls is
\* swallowed and the next statement runs
ThrownSwallowed(op) ==
    CASE op = "createPCbyAI" -> "createPC"
      [] OTHER -> Following(op)

\* where control goes when statement op throws: the catch clause of
\* createPyprojectContent, the inner catch of the sha lookup, or the catch
\* clause of the loop body
Thrown(op) ==
    CASE op = "createPCbyAI" -> "createPC"
      [] op = "repos.getContent" -> Following(op)
      [] OTHER -> "catch"

\* the call op of the current repository, with its outcome and the argument
\* that tells the calls apart
Call(op, ok, arg) ==
    [repo |-> repositories[repository], op |-> op, ok |-> ok, arg |-> arg]

InitHandler ==
    /\ fn = "installation.created"
    /\ pc = "loop"
    /\ repositories \in Payloads
    /\ repository = 1
    /\ usedAI = FALSE /\ entryFile = "null" /\ pyprojectContent = "undefined"
    /\ existingSha = "undefined"
    /\ calls = <<>> /\ errors = <<>>
    /\ content = <<>> /\ maxLen = 0 /\ output = <<>>
    /\ ReadmeIdle /\ PythonIdle /\ AllocIdle

\* line 18: the next repository of the payload, or the end of the handler
HandlerLoop ==
    /\ fn = "installation.created" /\ pc = "loop"
    /\ pc' = IF repository > Len(repositories) THEN "done" ELSE "repos.get"
    /\ usedAI' = FALSE /\ entryFile' = "null" /\ pyprojectContent' = "undefined"
    /\ existingSha' = "undefined"
    /\ UNCHANGED <<fn, repositories, repository, calls, errors, truncateVars>>

\* an awaited call that returns or throws, and leaves the locals alone
Await(op, arg) ==
    /\ fn = "installation.created" /\ pc = op
    /\ \E ok \in BOOLEAN :
          /\ calls' = Append(calls, Call(op, ok, arg))
          /\ pc' = IF ok THEN Following(op) ELSE Thrown(op)
    /\ UNCHANGED <<fn, repositories, errors, truncateVars>>

\* line 23
ReposGet ==
    /\ Await("repos.get", "")
    /\ UNCHANGED <<repository, usedAI, entryFile, pyprojectContent, existingSha>>

\* lines 160-170: createPCbyAI returns a pyproject and maybe an entry file
CreatePCbyAI ==
    /\ fn = "installation.created" /\ pc = "createPCbyAI"
    /\ \E ok \in BOOLEAN :
          /\ calls' = Append(calls, Call("createPCbyAI", ok, ""))
          /\ IF ok
             THEN /\ pyprojectContent' = "ai"
                  /\ entryFile' \in {"null", "file"}
                  /\ usedAI' = TRUE
                  /\ pc' = Following("createPCbyAI")
             ELSE /\ pc' = Thrown("createPCbyAI")
                  /\ UNCHANGED <<pyprojectContent, entryFile, usedAI>>
    /\ UNCHANGED <<fn, repositories, repository, existingSha, errors, truncateVars>>

\* lines 171-177: the fallback to the template
CreatePC ==
    /\ fn = "installation.created" /\ pc = "createPC"
    /\ pyprojectContent' = "template"
    /\ entryFile' = "null"
    /\ usedAI' = FALSE
    /\ pc' = Following("createPC")
    /\ UNCHANGED <<fn, repositories, repository, existingSha, calls, errors, truncateVars>>

\* line 80
GetRef ==
    /\ Await("git.getRef", "")
    /\ UNCHANGED <<repository, usedAI, entryFile, pyprojectContent, existingSha>>

\* line 86
CreateRef ==
    /\ Await("git.createRef", "")
    /\ UNCHANGED <<repository, usedAI, entryFile, pyprojectContent, existingSha>>

\* line 94
PutPyproject ==
    /\ Await("pyproject.toml", pyprojectContent)
    /\ UNCHANGED <<repository, usedAI, entryFile, pyprojectContent, existingSha>>

\* lines 107-117: the sha of the entry file, when the file exists
GetContent ==
    /\ Await("repos.getContent", "")
    /\ existingSha' = IF calls'[Len(calls')].ok THEN "sha" ELSE "undefined"
    /\ UNCHANGED <<repository, usedAI, entryFile, pyprojectContent>>

\* line 119
PutEntryFile ==
    /\ Await("entryFile", existingSha)
    /\ UNCHANGED <<repository, usedAI, entryFile, pyprojectContent, existingSha>>

\* line 131
PutWorkflow ==
    /\ Await("pypi.yml", "")
    /\ UNCHANGED <<repository, usedAI, entryFile, pyprojectContent, existingSha>>

\* lines 141-151: the pull request; its body carries the warning when the
\* template was used
PullsCreate ==
    /\ Await("pulls.create", IF usedAI THEN "" ELSE "aiWarning")
    /\ repository' = IF pc' = "loop" THEN repository + 1 ELSE repository
    /\ UNCHANGED <<usedAI, entryFile, pyprojectContent, existingSha>>

\* lines 152-154
Catch ==
    /\ fn = "installation.created" /\ pc = "catch"
    /\ errors' = Append(errors, repositories[repository])
    /\ repository' = repository + 1
    /\ pc' = "loop"
    /\ UNCHANGED <<fn, repositories, usedAI, entryFile, pyprojectContent, existingSha,
                   calls, truncateVars>>

-----------------------------------------------------------------------------

Init == InitReadme \/ InitPython \/ InitAlloc \/ InitHandler

Next ==
    \/ ReadmeReturn \/ ReadmeIntro \/ ReadmeTier \/ ReadmeMatch \/ ReadmeJoin
    \/ PythonReturn \/ PythonScan \/ PythonImports \/ PythonEntry \/ PythonHeadTail
    \/ PythonJoin
    \/ AllocEmpty \/ AllocSort \/ AllocFile \/ AllocReturn
    \/ HandlerLoop \/ ReposGet \/ CreatePCbyAI \/ CreatePC \/ GetRef \/ CreateRef
    \/ PutPyproject \/ GetContent \/ PutEntryFile \/ PutWorkflow \/ PullsCreate
    \/ Catch

Spec == Init /\ [][Next]_vars

-----------------------------------------------------------------------------
(* Properties *)

Done == pc = "done"
IsReadme == fn = "smartTruncateReadme"
IsPython == fn = "smartTruncatePython"
IsAlloc == fn = "truncateFilesByBudget"

\* the pieces joined into the output, and the joiner
Parts == IF IsReadme THEN extracted ELSE result
Joiner == IF IsReadme THEN README_SEP ELSE <<"\n">>

RECURSIVE SumLen(_)
SumLen(parts) == IF parts = <<>> THEN 0 ELSE Len(Head(parts)) + SumLen(Tail(parts))

\* the document text among the pieces, and what the function inserted
TextLen(parts) == SumLen(SelectSeq(parts, LAMBDA part : part # ELISION))
Overhead(parts, sep) ==
    SumLen(SelectSeq(parts, LAMBDA part : part = ELISION))
    + (IF parts = <<>> THEN 0 ELSE (Len(parts) - 1) * Len(sep))

\* C1: when len(content) <= maxLen, smartTruncateReadme and
\* smartTruncatePython return content exactly as it is.
C1_Identity ==
    (Done /\ (IsReadme \/ IsPython) /\ Len(content) <= maxLen) => output = content

\* a non-empty source document exactly maxLen long came back whole
C1_Witness ==
    /\ Done /\ IsPython
    /\ Len(content) = maxLen /\ maxLen > 0
    /\ output = content

\* C2: for maxLen >= 500 the document text emitted is at most maxLen long,
\* and the output exceeds maxLen by at most the markers and joiners inserted
\* (at most 23 characters for a source document).
C2_Bound ==
    (Done /\ (IsReadme \/ IsPython) /\ maxLen >= FLOOR_MIN) =>
        /\ TextLen(Parts) <= maxLen
        /\ Len(output) <= maxLen + Overhead(Parts, Joiner)
        /\ IsPython => Overhead(Parts, Joiner) <= Len(ELISION) + 3

\* a truncated readme whose output is longer than maxLen, by joiners only
C2_Witness ==
    /\ Done /\ IsReadme
    /\ maxLen >= FLOOR_MIN /\ Len(content) > maxLen
    /\ Len(extracted) >= 3
    /\ Len(output) > maxLen
    /\ TextLen(extracted) = maxLen

\* the excerpt of every file in the result of truncateFilesByBudget
ExcerptsNoLongerThanContent ==
    \A i \in 1..Len(fileContents) :
        NameOf(fileContents[i]) \in DOMAIN excerpts =>
            Len(excerpts[NameOf(fileContents[i])]) <= Len(ContentOf(fileContents[i]))

\* C3: an excerpt is never longer than its document, for
\* smartTruncateReadme, smartTruncatePython and the plain truncation of
\* truncateFilesByBudget.
C3_NeverExpands ==
    /\ (Done /\ (IsReadme \/ IsPython)) => Len(output) <= Len(content)
    /\ (IsAlloc /\ truncateFn = "undefined") => ExcerptsNoLongerThanContent

\* the files of the result, and their excerpts
Present(file) == NameOf(file) \in DOMAIN excerpts
ExcerptOf(file) == excerpts[NameOf(file)]
IsWhole(file) == Present(file) /\ ExcerptOf(file) = ContentOf(file)

\* total length of the excerpts of the first i files in ascending-size order
RECURSIVE ExcerptSum(_)
ExcerptSum(i) ==
    IF i = 0 THEN 0
    ELSE ExcerptSum(i - 1) + (IF Present(files[i]) THEN Len(ExcerptOf(files[i])) ELSE 0)

\* what is left of the category budget when the i-th file is reached
RemainingBefore(i) == totalBudget - ExcerptSum(i - 1)

RECURSIVE RawSum(_)
RawSum(i) == IF i = 0 THEN 0 ELSE RawSum(i - 1) + Len(ContentOf(fileContents[i]))

\* total raw size of the document set
TotalRaw == RawSum(Len(fileContents))

\* C4: when the total raw size is less than the category budget, every
\* document is returned whole.
C4_Conservation ==
    (IsAlloc /\ Done /\ TotalRaw < totalBudget) =>
        \A i \in 1..Len(fileContents) : IsWhole(fileContents[i])

\* C5 as claimed: when the combined size greatly exceeds the budget, a
\* document reached once remaining <= 0 is absent and every document
\* processed before is whole.
C5_Original ==
    (IsAlloc /\ Done /\ TotalRaw >= 2 * totalBudget) =>
        \A i \in 1..Len(files) :
            /\ RemainingBefore(i) <= 0 => ~Present(files[i])
            /\ Present(files[i]) => IsWhole(files[i])

\* C5 as amended: a document is in the result exactly when remaining > 0
\* as it is reached; it is whole when it is no longer than its allocated
\* budget, and under plain truncation it is otherwise cut to that budget.
C5_Starvation ==
    (IsAlloc /\ Done) =>
        \A i \in 1..Len(files) :
            LET file == files[i]
            IN  /\ Present(file) <=> RemainingBefore(i) > 0
                /\ Present(file) =>
                     IF Len(ContentOf(file)) <= budgetOf[NameOf(file)]
                     THEN IsWhole(file)
                     ELSE truncateFn = "undefined" =>
                            ExcerptOf(file) = SubSeq(ContentOf(file), 1, budgetOf[NameOf(file)])

\* three files, far more text than budget: the smallest whole, the next
\* cut, the largest absent
C5_Witness ==
    /\ IsAlloc /\ Done
    /\ Len(files) = 3
    /\ TotalRaw >= 2 * totalBudget
    /\ IsWhole(files[1])
    /\ Present(files[2]) /\ ~IsWhole(files[2])
    /\ ~Present(files[3])

\* C6 as claimed: every processed document is allocated at least 500
\* characters, and a document longer than 500 gets an excerpt of at least 500.
C6_Original ==
    IsAlloc =>
        \A i \in 1..Len(files) :
            Present(files[i]) =>
                /\ budgetOf[NameOf(files[i])] >= FLOOR_MIN
                /\ Len(ContentOf(files[i])) > FLOOR_MIN => Len(ExcerptOf(files[i])) >= FLOOR_MIN

\* C6 as amended: the allocation is at least min(remaining, 500); when at
\* least 500 characters remain, plain truncation gives a document longer
\* than 500 an excerpt of at least 500.
C6_Floor ==
    IsAlloc =>
        \A i \in 1..Len(files) :
            LET file == files[i]
            IN  Present(file) =>
                  /\ budgetOf[NameOf(file)] >= Min(RemainingBefore(i), FLOOR_MIN)
                  /\ ( /\ truncateFn = "undefined"
                       /\ RemainingBefore(i) >= FLOOR_MIN
                       /\ Len(ContentOf(file)) > FLOOR_MIN )
                     => Len(ExcerptOf(file)) >= FLOOR_MIN

\* the per-file share is below 500, 500 or more remain, and a document
\* longer than 500 is cut to exactly 500
C6_Witness ==
    /\ IsAlloc /\ Done /\ truncateFn = "undefined"
    /\ perFileBudget < FLOOR_MIN
    /\ \E i \in 1..Len(files) :
          /\ Present(files[i])
          /\ RemainingBefore(i) > FLOOR_MIN
          /\ Len(ContentOf(files[i])) > FLOOR_MIN
          /\ Len(ExcerptOf(files[i])) = FLOOR_MIN

\* the place of each tier in the priority order of the readme extractor
TierRank(t) ==
    CASE t = "intro" -> 0
      [] t = "usage" -> 1
      [] t = "install" -> 2
      [] t = "example" -> 3
      [] t = "fence" -> 4

\* piece is the beginning of a match of tier t in the document
IsFragmentOf(piece, t) ==
    LET matches == MatchAll(content, t)
    IN  \E k \in 1..Len(matches) : piece = Slice(matches[k], 0, Len(piece))

\* C7: in the pieces smartTruncateReadme keeps, a fragment of an earlier
\* tier (usage, installation, example, fenced code) precedes every fragment
\* of a later tier, and each fragment is the beginning of a match of its tier.
C7_TierOrder ==
    IsReadme =>
        /\ Len(tierOf) = Len(extracted)
        /\ \A i, j \in 1..Len(tierOf) :
              i < j => TierRank(tierOf[i]) <= TierRank(tierOf[j])
        /\ \A i \in 2..Len(extracted) : IsFragmentOf(extracted[i], tierOf[i])

USAGE_HEADING == <<"#", "#", " ", "U", "s", "a", "g", "e", "\n">>
EXAMPLES_HEADING == <<"#", "#", " ", "E", "x", "a", "m", "p", "l", "e", "s", "\n">>

\* the Examples section comes first in the document, behind the
\* introduction; both sections are kept and Usage comes first in the output
C7_Witness ==
    /\ Done /\ IsReadme
    /\ FindLit(content, 1, EXAMPLES_HEADING) > INTRO_LEN
    /\ FindLit(content, 1, EXAMPLES_HEADING) < FindLit(content, 1, USAGE_HEADING)
    /\ \E i, j \in 2..Len(tierOf) : tierOf[i] = "usage" /\ tierOf[j] = "example"
    /\ FindLit(output, 1, USAGE_HEADING) > 0
    /\ FindLit(output, 1, USAGE_HEADING) < FindLit(output, 1, EXAMPLES_HEADING)

\* the indices of the lines that match an entry signature
EntryLines == {i \in 0..(Len(lines) - 1) : IsEntry(lines[i + 1])}

\* the lines from index start to end-of-file
LinesFrom(start) == Join(SubSeq(lines, start + 1, Len(lines)), <<"\n">>)

\* C8: smartTruncatePython takes the entry match E closest to end-of-file;
\* when the composed output fits in maxLen, the context window is the lines
\* from index max(E - 20, importEnd + 1) to end-of-file, importEnd being the
\* index of the last line of the import block.
C8_BackwardEntry ==
    (IsPython /\ pc = "join") =>
        /\ entryStart = IF EntryLines = {} THEN -1 ELSE MaxOf(EntryLines)
        /\ importLines # <<>> => lines[importEnd + 1] = importLines[Len(importLines)]
        /\ EntryLines # {} =>
             LET window == LinesFrom(Max(MaxOf(EntryLines) - 20, importEnd + 1))
             IN  currentLen + Len(window) <= maxLen =>
                    /\ result # <<>>
                    /\ result[Len(result)] = window

\* two lines match, more than 20 lines apart; the window is the 20 lines
\* before the later match and the rest of the file, and leaves out the
\* earlier match
C8_Witness ==
    /\ IsPython /\ pc = "join"
    /\ Cardinality(EntryLines) = 2
    /\ entryStart = MaxOf(EntryLines)
    /\ MaxOf(EntryLines) - MinOf(EntryLines) > 20
    /\ importLines # <<>>
    /\ result = <<ImportSection(importLines), ELISION, LinesFrom(entryStart - 20)>>

\* the example scenario: 50 lines, more than 800 characters, 5 import lines
\* at the top, def run(): at line 30, the __main__ guard at line 48, budget 800
ExampleScenario ==
    /\ Done /\ IsPython
    /\ maxLen = 800 /\ Len(content) > 800
    /\ Len(lines) = 50
    /\ \A i \in 1..5 : IsImport(lines[i])
    /\ ~IsImport(lines[6])
    /\ lines[30] = SourceLine("run")
    /\ lines[48] = SourceLine("guard")
    /\ EntryLines = {29, 47}

\* the output made of the 5 import lines, the marker and the lines first..50
ExampleOutput(first) ==
    Join(<< Join(SubSeq(lines, 1, 5), <<"\n">>),
            ELISION,
            Join(SubSeq(lines, first, 50), <<"\n">>) >>, <<"\n">>)

\* C9 as claimed: the output is the 5 import lines, an elision marker and
\* lines 10 to 50.
C9_Original == ExampleScenario => output = ExampleOutput(10)

\* C9 as amended: the output is the 5 import lines, an elision marker and
\* lines 28 to 50 (the 20 lines before the guard at line 48, to the end),
\* when the import lines are shorter than 400 characters and fit in 800
\* together with lines 28 to 50.
C9_Example ==
    ( /\ ExampleScenario
      /\ Len(Join(SubSeq(lines, 1, 5), <<"\n">>)) < 400
      /\ Len(Join(SubSeq(lines, 1, 5), <<"\n">>))
           + Len(Join(SubSeq(lines, 28, 50), <<"\n">>)) <= 800 )
    => output = ExampleOutput(28)

\* the example scenario was run and gave lines 28 to 50
C9_Witness == ExampleScenario /\ output = ExampleOutput(28)

\* C10: for maxLen <= 0 the result is empty or minimally truncated: no
\* longer than the 500 characters of an introduction, whatever the length
\* of content.
C10_Degenerate ==
    (Done /\ (IsReadme \/ IsPython) /\ maxLen <= 0) => Len(output) <= INTRO_LEN

-----------------------------------------------------------------------------
(* the import block *)

\* the run of import lines that starts at the top of the file: blank lines
\* are passed over, the first line that is neither ends it
RECURSIVE TopImports(_, _, _)
TopImports(ls, i, found) ==
    IF i >= Len(ls) THEN found
    ELSE IF IsImport(ls[i + 1]) THEN TopImports(ls, i + 1, Append(found, ls[i + 1]))
         ELSE IF IsBlank(ls[i + 1]) THEN TopImports(ls, i + 1, found)
              ELSE found

Scanned == IsPython /\ pc \in {"imports", "body", "join"}

\* C11: the import block recorded by smartTruncatePython is the run of import
\* lines that starts at the top of the file; when the first non-blank line is
\* not an import line the block is empty, whatever import lines follow.
C11_TopPreamble == Scanned => importLines = TopImports(lines, 0, <<>>)

-----------------------------------------------------------------------------
(* the minimum fragment length *)

\* the inner loop is about to examine a candidate that the introduction does
\* not contain
CandidateOutsideIntro ==
    /\ IsReadme /\ pc = "match"
    /\ pending # <<>> /\ remainingBudget > 0
    /\ ~Includes(extracted[1], Head(pending))

\* the candidate cut to the remaining budget
Candidate == Truncated(Head(pending), remainingBudget)

\* the candidate is appended and charged
CandidateKept ==
    /\ extracted' = Append(extracted, Candidate)
    /\ remainingBudget' = remainingBudget - Len(Candidate)

\* C12: a candidate outside the introduction is discarded if and only if its
\* length after truncation to the remaining budget is below 100; a candidate
\* of exactly 100 characters is kept and the budget is decremented by 100.
C12_KeepAtMinimum ==
    [][CandidateOutsideIntro =>
         IF Len(Candidate) < MIN_FRAGMENT
         THEN UNCHANGED <<extracted, remainingBudget>>
         ELSE CandidateKept]_vars

-----------------------------------------------------------------------------
(* the region of a section *)

\* level of the markdown heading that starts at position p of s, 0 when no
\* heading starts there
HeadingLevel(s, p) ==
    IF p > Len(s) \/ ~(p = 1 \/ s[p - 1] = "\n") THEN 0
    ELSE LET k == HashRun(s, p)
         IN  IF k >= 1 /\ p + k <= Len(s) /\ s[p + k] = " " THEN k ELSE 0

\* position of the "\n" that ends the line of position p (Len(s) + 1 on the
\* last line)
LineEnd(s, p) == MinOf({q \in p..(Len(s) + 1) : q = Len(s) + 1 \/ s[q] = "\n"})

\* the heading line at p contains a keyword of tier t
HeadingHasKeyword(s, p, t) ==
    \E q \in p..LineEnd(s, p) : \E a \in 1..Len(TierKeywords(t)) :
        LET e == KeywordEnd(s, q, TierKeywords(t)[a], 1)
        IN  e # 0 /\ e <= LineEnd(s, p)

\* end (exclusive) of the region of the level-k heading whose line ends at
\* from: the line break before the next heading of level k or higher, or
\* the end of the document
RegionEnd(s, from, k) ==
    MinOf({q \in from..(Len(s) + 1) :
             \/ q = Len(s) + 1
             \/ s[q] = "\n" /\ HeadingLevel(s, q + 1) \in 1..k})

\* the regions of tier t, from position from on
RECURSIVE SectionRegions(_, _, _)
SectionRegions(s, from, t) ==
    LET starts == {p \in from..Len(s) :
                     HeadingLevel(s, p) # 0 /\ HeadingHasKeyword(s, p, t)}
    IN  IF starts = {} THEN <<>>
        ELSE LET p == MinOf(starts)
                 e == RegionEnd(s, LineEnd(s, p), HeadingLevel(s, p))
             IN  <<SubSeq(s, p, e - 1)>> \o SectionRegions(s, e, t)

\* C13: the matches of a heading tier are the regions that start at a
\* heading line containing a keyword of the tier (not only as its first
\* word) and run to the next heading of the same or a higher level; a deeper
\* sub-heading does not end a region.
C13_SectionRegion ==
    [][(IsReadme /\ pc = "tier" /\ pc' = "match" /\ prioritySections[tier] # "fence")
         => pending' = SectionRegions(content, 1, prioritySections[tier])]_vars

\* a second-level heading that carries the usage keyword as its second word
BASIC_USAGE_HEADING == <<"#", "#", " ", "B", "a", "s", "i", "c", " ", "u", "s", "a", "g", "e", "\n">>

\* a third-level heading under a section
OPTIONS_HEADING == <<"\n", "#", "#", "#", " ", "O", "p", "t", "i", "o", "n", "s", "\n">>

\* the same statement for the documents with neither of the two
C13_FlatSections ==
    [][(IsReadme /\ pc = "tier" /\ pc' = "match" /\ prioritySections[tier] # "fence"
          /\ ~Includes(content, BASIC_USAGE_HEADING)
          /\ ~Includes(content, OPTIONS_HEADING))
         => pending' = SectionRegions(content, 1, prioritySections[tier])]_vars

-----------------------------------------------------------------------------
(* the budget of a category *)

\* C14: under plain truncation with totalBudget >= 0, remaining is never
\* negative, each excerpt is the prefix of its content of length
\* min(len(content), allocated), and the excerpts together are no longer
\* than totalBudget.
C14_ManifestBudget ==
    (IsAlloc /\ truncateFn = "undefined" /\ totalBudget >= 0) =>
        /\ remaining >= 0
        /\ pc \in {"loop", "done"} /\ files # <<>> =>
              remaining = totalBudget - ExcerptSum(Len(files))
        /\ \A i \in 1..Len(files) :
              LET file == files[i]
              IN  Present(file) =>
                    ExcerptOf(file) =
                        SubSeq(ContentOf(file), 1,
                               Min(Len(ContentOf(file)), budgetOf[NameOf(file)]))
        /\ ExcerptSum(Len(files)) <= totalBudget

\* the per-file share is below the floor, a document is cut at the floor
\* and the excerpts use the budget up
C14_Witness ==
    /\ IsAlloc /\ Done /\ truncateFn = "undefined"
    /\ totalBudget > 0
    /\ perFileBudget < FLOOR_MIN
    /\ Len(files) >= 2
    /\ \E i \in 1..Len(files) :
          Present(files[i]) /\ Len(ExcerptOf(files[i])) = FLOOR_MIN /\ ~IsWhole(files[i])
    /\ ExcerptSum(Len(files)) = totalBudget
    /\ remaining = 0

-----------------------------------------------------------------------------
(* the budget of the source category *)

\* what the elision marker and the two line breaks around it add
MARKER_OVERHEAD == Len(ELISION) + 3

\* number of documents in the result
PresentCount == Cardinality({i \in 1..Len(files) : Present(files[i])})

\* C15: with smartTruncatePython and totalBudget > 0 the excerpts together
\* exceed totalBudget by at most the marker overhead of 23 characters per
\* document, also when a document is truncated with maxLen = 1.
C15_SourceBudget ==
    (IsAlloc /\ truncateFn = "smartTruncatePython" /\ totalBudget > 0) =>
        ExcerptSum(Len(files)) <= totalBudget + MARKER_OVERHEAD * PresentCount

-----------------------------------------------------------------------------
(* a source file without import lines *)

IsPrefix(p, s) == Len(p) <= Len(s) /\ SubSeq(s, 1, Len(p)) = p

\* the pieces that follow the import block in result
BodyParts == SubSeq(result, Len(ImportParts(importLines, maxLen)) + 1, Len(result))

\* C16: for a file with no import line that needs truncation, the body is
\* the whole file from its first line on: the leading half of the head/tail
\* fallback is a prefix of content, and with an entry signature within the
\* first 21 lines the context window starts at line index 0.
C16_NoImportBlock ==
    (IsPython /\ pc = "join" /\ importLines = <<>>) =>
        /\ entryStart = -1 => IsPrefix(BodyParts[1], content)
        /\ entryStart \in 0..CONTEXT_LINES =>
              EntrySection(lines, entryStart, importEnd) = content

-----------------------------------------------------------------------------
(* the installation.created handler *)

IsHandler == fn = "installation.created"

\* positions in calls of the calls op of repository r with outcome ok
CallsOf(r, op, ok) ==
    {k \in 1..Len(calls) : calls[k].repo = r /\ calls[k].op = op /\ calls[k].ok = ok}

\* the calls whose exception is caught before it reaches the loop body
CAUGHT_INSIDE == {"createPCbyAI", "repos.getContent"}

\* a call of repository r threw into the loop body
Aborted(r) ==
    \E k \in 1..Len(calls) :
        calls[k].repo = r /\ ~calls[k].ok /\ calls[k].op \notin CAUGHT_INSIDE

\* pulls.create is called only after createRef, the pyproject.toml file and
\* the workflow file succeeded, in that order
CreatedInOrder(r) ==
    \A k \in CallsOf(r, "pulls.create", TRUE) \cup CallsOf(r, "pulls.create", FALSE) :
        \E i \in CallsOf(r, "git.createRef", TRUE) :
        \E j \in CallsOf(r, "pyproject.toml", TRUE) :
        \E l \in CallsOf(r, "pypi.yml", TRUE) :
            i < j /\ j < l /\ l < k

\* a repository whose call threw has no pull request and is logged
NoPullRequestAfterThrow(r) ==
    Aborted(r) =>
        /\ CallsOf(r, "pulls.create", TRUE) = {}
        /\ \/ pc = "catch" /\ repositories[repository] = r
           \/ \E e \in 1..Len(errors) : errors[e] = r

\* the handler goes through the payload in order and ends only when every
\* repository was taken up
EveryRepositoryProcessed ==
    /\ \A k \in 1..Len(calls) : k > 1 =>
          \E i, j \in 1..Len(repositories) :
              /\ i <= j
              /\ calls[k - 1].repo = repositories[i]
              /\ calls[k].repo = repositories[j]
    /\ pc = "done" =>
          \A i \in 1..Len(repositories) :
              /\ CallsOf(repositories[i], "repos.get", TRUE)
                   \cup CallsOf(repositories[i], "repos.get", FALSE) # {}
              /\ \/ CallsOf(repositories[i], "pulls.create", TRUE) # {}
                 \/ \E e \in 1..Len(errors) : errors[e] = repositories[i]

\* when createPCbyAI throws the repository goes on with the template, no
\* entry file and usedAI = false
FallsBackToTemplate(r) ==
    \A k \in CallsOf(r, "createPCbyAI", FALSE) :
        /\ k < Len(calls) => calls[k + 1].repo = r /\ calls[k + 1].op = "git.getRef"
        /\ \A j \in 1..Len(calls) : calls[j].repo = r =>
              /\ calls[j].op = "pyproject.toml" => calls[j].arg = "template"
              /\ calls[j].op = "pulls.create" => calls[j].arg = "aiWarning"
              /\ calls[j].op # "entryFile"
        /\ (repository <= Len(repositories) /\ repositories[repository] = r
              /\ pc \notin {"createPC", "loop"}) =>
              usedAI = FALSE /\ entryFile = "null" /\ pyprojectContent = "template"

\* C17: for each repository of the payload the pull request is created only
\* after the branch ref, the pyproject.toml file and the workflow file were
\* created, in that order; a repository whose step throws into the loop
\* body gets no pull request and the later repositories are still
\* processed; a failure of createPCbyAI alone falls back to the template
\* with usedAI = false.
C17_HandlerIsolation ==
    IsHandler =>
        /\ EveryRepositoryProcessed
        /\ \A i \in 1..Len(repositories) :
              /\ CreatedInOrder(repositories[i])
              /\ NoPullRequestAfterThrow(repositories[i])
              /\ FallsBackToTemplate(repositories[i])

\* the workflow file of the first repository fails after its branch and
\* pyproject.toml were created; the second repository loses createPCbyAI
\* and still gets its pull request, with the warning
C17_Witness ==
    /\ IsHandler /\ pc = "done" /\ Len(repositories) = 2
    /\ CallsOf(repositories[1], "pyproject.toml", TRUE) # {}
    /\ CallsOf(repositories[1], "pypi.yml", FALSE) # {}
    /\ CallsOf(repositories[1], "pulls.create", TRUE) = {}
    /\ errors = <<repositories[1]>>
    /\ CallsOf(repositories[2], "createPCbyAI", FALSE) # {}
    /\ \E k \in CallsOf(repositories[2], "pulls.create", TRUE) : calls[k].arg = "aiWarning"

====
